---- MODULE Spec2Model ----
(***************************************************************************)
(* Time-tracking server: the time_entries table, the REST handlers that    *)
(* read and write it (server/routes.ts) and the storage layer they call    *)
(* (server/storage.ts).  Timestamps are integers in abstract clock ticks;  *)
(* the server's time zone is taken to be UTC.                              *)
(***************************************************************************)
EXTENDS Integers, FiniteSets, Sequences, TLC

\* ---------------------------------------------------------------- bounds
MaxTime == 2          \* request bodies carry timestamps 0..MaxTime
MaxClock == 1         \* the clock runs from 0 to MaxClock
MaxDate == 1          \* request bodies and queries carry dates 0..MaxDate
MaxEntries == 2       \* rows ever inserted, manual entry and the whole API
MaxTimerEntries == 3  \* rows ever inserted, timer runs
MaxRequests == 2      \* requests in flight at once
TicksPerDay == 2      \* clock ticks in one calendar day
MinuteStep == 15      \* the durations computed alone take minutes in steps of this many
MaxSteps == 10        \* and up to this many steps
MaxReportRows == 2    \* rows of the tables the reports are computed of
MaxBalanceRows == 2   \* rows of the tables the dashboard is computed of
MaxProjects == 2      \* projects ever created
MaxHolidays == 2      \* holidays stored at a time
MaxSeeded == 3        \* projects stored once the sample projects are seeded

Times == 0..MaxTime
Dates == 0..MaxDate
Clock == 0..MaxClock

\* A nullable column or an optional query parameter that holds no value.
NULL == -1
\* new Date(x) of a missing or malformed x: an Invalid Date, which z.date() rejects.
INVALID == -2

Users == {"u1", "u2"}

VARIABLES
    users,      \* users table: id -> [role, name, hourlyRate, targetHoursPerDay, isActive]
    projects,   \* projects table: id -> [name, isActive]
    holidays,   \* holidays table: id -> [name, date]
    entries,    \* time_entries table: id -> row
    nextId,     \* next fresh primary key (gen_random_uuid())
    now,        \* the clock read by new Date() and by the database's now()
    resp,       \* the last exchange: [op, status, message, caller, body]
    reqs,       \* requests in flight, each at one of its awaits: slot -> request
    probe       \* a pure function under test: its inputs and, once applied, its result

vars == <<users, projects, holidays, entries, nextId, now, resp, reqs, probe>>

\* ------------------------------------------------------------ storage.ts

\* a faulty variant: the running rows of every user
getRunningTimeEntry_AnyUser(es, userId) == {id \in DOMAIN es : es[id].isRunning = TRUE}

\* db.select().from(timeEntries).where(userId = u AND isRunning = true): the
\* rows the query matches.  The caller destructures the first row of a query
\* that has no ORDER BY, so any of them may be the one it gets.
getRunningTimeEntry(es, userId) ==
    {id \in DOMAIN es : es[id].userId = userId /\ es[id].isRunning = TRUE}

\* db.select()...where(eq(timeEntries.id, id))
getTimeEntry(es, id) == {i \in DOMAIN es : i = id}

\* UPDATE time_entries SET ...updateEntry, updated_at = t WHERE id = id
updateTimeEntry(es, id, updateEntry, t) ==
    [i \in DOMAIN es |->
        IF i = id
        THEN [f \in DOMAIN es[i] |->
                IF f = "updatedAt" THEN t
                ELSE IF f \in DOMAIN updateEntry THEN updateEntry[f] ELSE es[i][f]]
        ELSE es[i]]

\* INSERT INTO time_entries VALUES (insertEntry), updated_at DEFAULT now()
createTimeEntry(es, id, insertEntry, t) ==
    [i \in DOMAIN es \cup {id} |->
        IF i = id
        THEN [userId |-> insertEntry.userId, projectId |-> insertEntry.projectId,
              date |-> insertEntry.date, startTime |-> insertEntry.startTime,
              endTime |-> insertEntry.endTime,
              breakMinutes |-> insertEntry.breakMinutes,
              isRunning |-> insertEntry.isRunning, updatedAt |-> t]
        ELSE es[i]]

\* DELETE FROM time_entries WHERE id = id
deleteTimeEntry(es, id) == [i \in DOMAIN es \ {id} |-> es[i]]

\* rows of one user; with both bounds given, those with startDate <= date <= endDate
getTimeEntriesByUser(es, userId, startDate, endDate) ==
    {id \in DOMAIN es :
        /\ es[id].userId = userId
        /\ (startDate # NULL /\ endDate # NULL) =>
              (es[id].date >= startDate /\ es[id].date <= endDate)}

\* rows of every user; with both bounds given, those with startDate <= date <= endDate
getAllTimeEntries(es, startDate, endDate) ==
    {id \in DOMAIN es :
        (startDate # NULL /\ endDate # NULL) =>
              (es[id].date >= startDate /\ es[id].date <= endDate)}

\* a row as the queries return it: the columns, the primary key, the joined
\* user and the name of the joined project, "" when the left join finds none
Row(es, us, ps, id) ==
    [id |-> id, userId |-> es[id].userId, projectId |-> es[id].projectId,
     date |-> es[id].date, startTime |-> es[id].startTime, endTime |-> es[id].endTime,
     breakMinutes |-> es[id].breakMinutes, isRunning |-> es[id].isRunning,
     hourlyRate |-> us[es[id].userId].hourlyRate, userName |-> us[es[id].userId].name,
     projectName |-> IF es[id].projectId \in DOMAIN ps THEN ps[es[id].projectId].name
                     ELSE ""]

Rows(es, us, ps, ids) == {Row(es, us, ps, id) : id \in ids}

\* SELECT * FROM projects WHERE is_active = true
getAllProjects(ps) == {id \in DOMAIN ps : ps[id].isActive}

\* INSERT INTO projects VALUES (insertProject), is_active DEFAULT true
createProject(ps, id, insertProject) ==
    [i \in DOMAIN ps \cup {id} |->
        IF i = id THEN [name |-> insertProject.name, isActive |-> TRUE] ELSE ps[i]]

\* SELECT * FROM users WHERE is_active = true
getAllUsers(us) == {u \in DOMAIN us : us[u].isActive}

\* UPDATE users SET updateUser WHERE id = id RETURNING *: the table after it
updateUser(us, id, update) ==
    [u \in DOMAIN us |->
        IF u = id
        THEN [f \in DOMAIN us[u] |-> IF f \in DOMAIN update THEN update[f] ELSE us[u][f]]
        ELSE us[u]]

\* UPDATE projects SET updateProject WHERE id = id RETURNING *: the table
\* after it; an id that matches no row updates none
updateProject(ps, id, update) ==
    [i \in DOMAIN ps |-> IF i = id THEN [ps[i] EXCEPT !.name = update.name] ELSE ps[i]]

\* INSERT INTO holidays VALUES (insertHoliday)
createHoliday(hs, id, insertHoliday) ==
    [i \in DOMAIN hs \cup {id} |->
        IF i = id THEN [name |-> insertHoliday.name, date |-> insertHoliday.date] ELSE hs[i]]

\* UPDATE holidays SET updateHoliday WHERE id = id RETURNING *
updateHoliday(hs, id, update) ==
    [i \in DOMAIN hs |->
        IF i = id THEN [name |-> update.name, date |-> update.date] ELSE hs[i]]

\* DELETE FROM holidays WHERE id = id
deleteHoliday(hs, id) == [i \in DOMAIN hs \ {id} |-> hs[i]]

\* a faulty variant: the row is removed
deleteProject_Hard(ps, id) == [i \in DOMAIN ps \ {id} |-> ps[i]]

\* UPDATE projects SET is_active = false WHERE id = id
deleteProject(ps, id) ==
    [i \in DOMAIN ps |-> IF i = id THEN [ps[i] EXCEPT !.isActive = FALSE] ELSE ps[i]]

\* ------------------------------------------------------------- routes.ts

Response(op, status, message, caller, body) ==
    [op |-> op, status |-> status, message |-> message, caller |-> caller, body |-> body]

\* a faulty variant: every caller passes for an admin
isAdmin_Always(caller) == TRUE

\* req.user.role === 'admin'
isAdmin(caller) == users[caller].role = "admin"

\* a faulty variant: a candidate that starts where the entry ends overlaps it
OverlapsWith_Closed(entry, entryData) ==
    IF entry.endTime = NULL \/ entryData.endTime = NULL
    THEN FALSE
    ELSE entryData.startTime <= entry.endTime /\ entryData.endTime > entry.startTime

\* the callback of existingEntries.some(...) in POST /api/time-entries
OverlapsWith(entry, entryData) ==
    IF entry.endTime = NULL \/ entryData.endTime = NULL
    THEN FALSE
    ELSE entryData.startTime < entry.endTime /\ entryData.endTime > entry.startTime

hasOverlap(es, existingEntries, entryData) ==
    \E id \in existingEntries : OverlapsWith(es[id], entryData)

\* a faulty variant: the userId of the body, when it names one, is kept
EntryData_BodyOwner(caller, body) ==
    [userId |-> IF "userId" \in DOMAIN body THEN body.userId ELSE caller,
     projectId |-> body.projectId, date |-> body.date,
     startTime |-> body.startTime, endTime |-> body.endTime,
     breakMinutes |-> body.breakMinutes, isRunning |-> body.isRunning]

\* insertTimeEntrySchema.parse({...req.body, userId: req.user.id, ...}): the candidate row
EntryData(caller, body) ==
    [userId |-> caller, projectId |-> body.projectId, date |-> body.date,
     startTime |-> body.startTime, endTime |-> body.endTime,
     breakMinutes |-> body.breakMinutes, isRunning |-> body.isRunning]

\* a faulty variant: the rejected candidate is inserted all the same
RejectOverlap_Inserts(caller, entryData) ==
    /\ resp' = Response("createEntry", 400, "overlap", caller, {})
    /\ entries' = createTimeEntry(entries, nextId, entryData, now)
    /\ nextId' = nextId + 1

\* if (hasOverlap) return res.status(400)...: the request ends before the insert
RejectOverlap(caller, entryData) ==
    /\ resp' = Response("createEntry", 400, "overlap", caller, {})
    /\ UNCHANGED <<entries, nextId>>

\* POST /api/time-entries
PostTimeEntry(caller, body) ==
    /\ UNCHANGED <<users, projects, holidays, now, reqs, probe>>
    /\ IF body.date = INVALID \/ body.startTime = INVALID
       THEN /\ resp' = Response("createEntry", 400, "invalid", caller, {})
            /\ UNCHANGED <<entries, nextId>>
       ELSE LET entryData == EntryData(caller, body)
                existingEntries ==
                    getTimeEntriesByUser(entries, caller, entryData.date, entryData.date)
            IN  IF hasOverlap(entries, existingEntries, entryData)
                THEN RejectOverlap(caller, entryData)
                ELSE /\ entries' = createTimeEntry(entries, nextId, entryData, now)
                     /\ nextId' = nextId + 1
                     /\ resp' = Response("createEntry", 201, "", caller, {})

\* PUT /api/time-entries/:id
PutTimeEntry(caller, id, body) ==
    /\ UNCHANGED <<users, projects, holidays, now, nextId, reqs, probe>>
    /\ IF getTimeEntry(entries, id) = {}
       THEN /\ resp' = Response("updateEntry", 404, "", caller, {})
            /\ UNCHANGED entries
       ELSE IF entries[id].userId # caller /\ ~isAdmin(caller)
       THEN /\ resp' = Response("updateEntry", 403, "", caller, {})
            /\ UNCHANGED entries
       ELSE IF "date" \in DOMAIN body /\ body.date = INVALID
       THEN /\ resp' = Response("updateEntry", 400, "invalid", caller, {})
            /\ UNCHANGED entries
       ELSE /\ entries' = updateTimeEntry(entries, id, body, now)
            /\ resp' = Response("updateEntry", 200, "", caller, {})

\* a faulty variant: the entry is deleted without a look at who asks
DeleteTimeEntry_NoOwnerCheck(caller, id) ==
    /\ UNCHANGED <<users, projects, holidays, now, nextId, reqs, probe>>
    /\ IF getTimeEntry(entries, id) = {}
       THEN /\ resp' = Response("deleteEntry", 404, "", caller, {})
            /\ UNCHANGED entries
       ELSE /\ entries' = deleteTimeEntry(entries, id)
            /\ resp' = Response("deleteEntry", 204, "", caller, {})

\* DELETE /api/time-entries/:id
DeleteTimeEntry(caller, id) ==
    /\ UNCHANGED <<users, projects, holidays, now, nextId, reqs, probe>>
    /\ IF getTimeEntry(entries, id) = {}
       THEN /\ resp' = Response("deleteEntry", 404, "", caller, {})
            /\ UNCHANGED entries
       ELSE IF entries[id].userId # caller /\ ~isAdmin(caller)
       THEN /\ resp' = Response("deleteEntry", 403, "", caller, {})
            /\ UNCHANGED entries
       ELSE /\ entries' = deleteTimeEntry(entries, id)
            /\ resp' = Response("deleteEntry", 204, "", caller, {})

\* a faulty variant: the stop sets endTime and leaves isRunning as it was
StopEntry_KeepsRunning(es, id, t) == updateTimeEntry(es, id, [endTime |-> t], t)

\* the write of POST /api/timer/start and POST /api/timer/stop to the running row
StopEntry(es, id, t) == updateTimeEntry(es, id, [endTime |-> t, isRunning |-> FALSE], t)

\* the row POST /api/timer/start inserts
NewTimerEntry(caller, t) ==
    [userId |-> caller, projectId |-> NULL, date |-> t, startTime |-> t,
     endTime |-> NULL, breakMinutes |-> 0, isRunning |-> TRUE]

\* POST /api/timer/start: the running row, if any, is stopped at the clock's
\* reading before the awaited update; the new row takes the reading after it.
TimerStart(caller) ==
    /\ UNCHANGED <<users, projects, holidays, reqs, probe>>
    /\ \E t \in now..MaxClock :
        /\ now' = t
        /\ LET running == getRunningTimeEntry(entries, caller)
           IN  \/ /\ running = {}
                  /\ entries' = createTimeEntry(entries, nextId, NewTimerEntry(caller, t), t)
               \/ \E runningEntry \in running :
                    entries' = createTimeEntry(StopEntry(entries, runningEntry, now),
                                               nextId, NewTimerEntry(caller, t), t)
        /\ nextId' = nextId + 1
        /\ resp' = Response("timerStart", 201, "", caller, {})

\* project_id REFERENCES projects(id): the insert of a row that names a
\* project the table does not hold is refused by the database
ReferencesProject(ps, projectId) == projectId = NULL \/ projectId \in DOMAIN ps

\* POST /api/timer/start with body {projectId}: the running row, if any, is
\* stopped; then the new row is inserted, and when the insert throws the
\* handler answers 500 with the stop already written
TimerStartOn(caller, projectId) ==
    /\ UNCHANGED <<users, projects, holidays, reqs, probe>>
    /\ \E t \in now..MaxClock :
        /\ now' = t
        /\ LET running == getRunningTimeEntry(entries, caller)
               stopped == IF running = {} THEN {entries}
                          ELSE {StopEntry(entries, runningEntry, now) :
                                  runningEntry \in running}
               newEntry == [NewTimerEntry(caller, t) EXCEPT !.projectId = projectId]
           IN  \E es \in stopped :
                 IF ReferencesProject(projects, projectId)
                 THEN /\ entries' = createTimeEntry(es, nextId, newEntry, t)
                      /\ nextId' = nextId + 1
                      /\ resp' = Response("timerStart", 201, "", caller, {})
                 ELSE /\ entries' = es
                      /\ nextId' = nextId
                      /\ resp' = Response("timerStart", 500, "", caller, {})

\* GET /api/time-entries/running: the row getRunningTimeEntry returns, or
\* nothing
GetRunning(caller) ==
    /\ UNCHANGED <<users, projects, holidays, entries, nextId, now, reqs, probe>>
    /\ LET running == getRunningTimeEntry(entries, caller)
       IN  \/ /\ running = {}
              /\ resp' = Response("getRunning", 200, "", caller, {})
           \/ \E runningEntry \in running :
                resp' = Response("getRunning", 200, "", caller,
                                 {[id |-> runningEntry, entry |-> entries[runningEntry]]})

\* a faulty variant: the running entry is looked up among all users'
TimerStop_AnyUser(caller) ==
    /\ UNCHANGED <<users, projects, holidays, now, nextId, reqs, probe>>
    /\ LET running == {id \in DOMAIN entries : entries[id].isRunning}
       IN  \/ /\ running = {}
              /\ resp' = Response("timerStop", 400, "norunning", caller, {})
              /\ UNCHANGED entries
           \/ \E runningEntry \in running :
                /\ entries' = StopEntry(entries, runningEntry, now)
                /\ resp' = Response("timerStop", 200, "", caller, {})

\* POST /api/timer/stop
TimerStop(caller) ==
    /\ UNCHANGED <<users, projects, holidays, now, nextId, reqs, probe>>
    /\ LET running == getRunningTimeEntry(entries, caller)
       IN  \/ /\ running = {}
              /\ resp' = Response("timerStop", 400, "norunning", caller, {})
              /\ UNCHANGED entries
           \/ \E runningEntry \in running :
                /\ entries' = StopEntry(entries, runningEntry, now)
                /\ resp' = Response("timerStop", 200, "", caller, {})

\* the clock advances between requests
Tick ==
    /\ now < MaxClock
    /\ now' = now + 1
    /\ UNCHANGED <<users, projects, holidays, entries, nextId, resp, reqs, probe>>

\* ----------------------------------------------------- routes.ts, projects

\* GET /api/projects: the active projects, for every authenticated caller
GetProjects(caller) ==
    /\ resp' = Response("getProjects", 200, "", caller,
                        {[id |-> id, name |-> projects[id].name,
                          isActive |-> projects[id].isActive]
                         : id \in getAllProjects(projects)})
    /\ UNCHANGED <<users, projects, holidays, entries, nextId, now, reqs, probe>>

\* POST /api/projects: an admin creates a project; a body without a name is
\* refused by insertProjectSchema.parse
PostProject(caller, body) ==
    /\ UNCHANGED <<users, holidays, entries, nextId, now, reqs, probe>>
    /\ IF ~isAdmin(caller)
       THEN /\ resp' = Response("createProject", 403, "", caller, {})
            /\ UNCHANGED projects
       ELSE IF "name" \notin DOMAIN body
       THEN /\ resp' = Response("createProject", 400, "invalid", caller, {})
            /\ UNCHANGED projects
       ELSE /\ projects' = createProject(projects, Cardinality(DOMAIN projects) + 1, body)
            /\ resp' = Response("createProject", 201, "", caller, {})

\* DELETE /api/projects/:id: an admin deactivates the project; an id that
\* matches no project updates no row and is answered 204 all the same
DeleteProject(caller, id) ==
    /\ UNCHANGED <<users, holidays, entries, nextId, now, reqs, probe>>
    /\ IF ~isAdmin(caller)
       THEN /\ resp' = Response("deleteProject", 403, "", caller, {})
            /\ UNCHANGED projects
       ELSE /\ projects' = deleteProject(projects, id)
            /\ resp' = Response("deleteProject", 204, "", caller, {})

\* PUT /api/projects/:id: an admin renames the project; the handler answers
\* with whatever row the update returned, none included
PutProject(caller, id, body) ==
    /\ UNCHANGED <<users, holidays, entries, nextId, now, reqs, probe>>
    /\ IF ~isAdmin(caller)
       THEN /\ resp' = Response("updateProject", 403, "", caller, {})
            /\ UNCHANGED projects
       ELSE /\ projects' = updateProject(projects, id, body)
            /\ resp' = Response("updateProject", 200, "", caller,
                                {projects'[i] : i \in {id} \cap DOMAIN projects})

\* ----------------------------------------------------- routes.ts, holidays

\* POST /api/holidays: an admin creates a holiday under a fresh id; a body
\* without a name is refused by insertHolidaySchema.parse
PostHoliday(caller, body) ==
    /\ UNCHANGED <<users, projects, entries, nextId, now, reqs, probe>>
    /\ IF ~isAdmin(caller)
       THEN /\ resp' = Response("createHoliday", 403, "", caller, {})
            /\ UNCHANGED holidays
       ELSE IF "name" \notin DOMAIN body
       THEN /\ resp' = Response("createHoliday", 400, "invalid", caller, {})
            /\ UNCHANGED holidays
       ELSE /\ \E id \in (1..MaxHolidays) \ DOMAIN holidays :
                 holidays' = createHoliday(holidays, id, body)
            /\ resp' = Response("createHoliday", 201, "", caller, {})

\* PUT /api/holidays/:id: an admin changes the holiday; the handler answers
\* with whatever row the update returned, none included. The storage class
\* of src/server/storage.ts has no updateHoliday: the call throws there and
\* the handler answers 500.
PutHoliday(caller, id, body) ==
    /\ UNCHANGED <<users, projects, entries, nextId, now, reqs, probe>>
    /\ IF ~isAdmin(caller)
       THEN /\ resp' = Response("updateHoliday", 403, "", caller, {})
            /\ UNCHANGED holidays
       ELSE \/ /\ holidays' = updateHoliday(holidays, id, body)
               /\ resp' = Response("updateHoliday", 200, "", caller,
                                   {holidays'[i] : i \in {id} \cap DOMAIN holidays})
            \/ /\ resp' = Response("updateHoliday", 500, "", caller, {})
               /\ UNCHANGED holidays

\* DELETE /api/holidays/:id: an admin deletes the holiday; an id that matches
\* no holiday deletes no row and is answered 204 all the same. Without a
\* deleteHoliday in the storage class the handler answers 500.
DeleteHoliday(caller, id) ==
    /\ UNCHANGED <<users, projects, entries, nextId, now, reqs, probe>>
    /\ IF ~isAdmin(caller)
       THEN /\ resp' = Response("deleteHoliday", 403, "", caller, {})
            /\ UNCHANGED holidays
       ELSE \/ /\ holidays' = deleteHoliday(holidays, id)
               /\ resp' = Response("deleteHoliday", 204, "", caller, {})
            \/ /\ resp' = Response("deleteHoliday", 500, "", caller, {})
               /\ UNCHANGED holidays

\* -------------------------------------------------------- routes.ts, users

\* PUT /api/users/:id: an admin changes a user with whatever the body holds
PutUser(caller, id, body) ==
    /\ UNCHANGED <<projects, holidays, entries, nextId, now, reqs, probe>>
    /\ IF ~isAdmin(caller)
       THEN /\ resp' = Response("updateUser", 403, "", caller, {id})
            /\ UNCHANGED users
       ELSE /\ users' = updateUser(users, id, body)
            /\ resp' = Response("updateUser", 200, "", caller, {id})

\* POST /api/users/:id/promote: hasAdmin is computed of the users
\* getAllUsers returns
Promote(caller, id) ==
    /\ UNCHANGED <<projects, holidays, entries, nextId, now, reqs, probe>>
    /\ IF \E u \in getAllUsers(users) : users[u].role = "admin"
       THEN /\ resp' = Response("promote", 403, "hasAdmin", caller, {id})
            /\ UNCHANGED users
       ELSE IF id # caller
       THEN /\ resp' = Response("promote", 403, "notSelf", caller, {id})
            /\ UNCHANGED users
       ELSE /\ users' = updateUser(users, id, [role |-> "admin"])
            /\ resp' = Response("promote", 200, "", caller, {id})

\* ------------------------------------------- routes.ts, sessions and seed

\* the sample projects of POST /api/seed
SeedProjects == <<[name |-> "Internes Projekt"], [name |-> "Kundenprojekt A"],
                  [name |-> "Administration"]>>

\* the three awaited createProject calls of POST /api/seed, from the n-th on
RECURSIVE seedFrom(_, _)
seedFrom(ps, n) ==
    IF n > Len(SeedProjects) THEN ps
    ELSE seedFrom(createProject(ps, Cardinality(DOMAIN ps) + 1, SeedProjects[n]), n + 1)

\* the body of POST /api/seed past its guard: the sample projects are
\* created when getAllProjects returns no project
seedData(ps) == IF getAllProjects(ps) = {} THEN seedFrom(ps, 1) ELSE ps

\* POST /api/seed by a caller with a session, whatever the role
Seed(caller) ==
    /\ UNCHANGED <<users, holidays, entries, nextId, now, reqs, probe>>
    /\ projects' = seedData(projects)
    /\ resp' = Response("seed", 200, "", caller, {})

\* the endpoints of routes.ts and the groups endpoints
Routes ==
    {"GET /api/projects", "POST /api/projects", "PUT /api/projects/:id",
     "DELETE /api/projects/:id", "GET /api/time-entries", "GET /api/time-entries/running",
     "POST /api/time-entries", "PUT /api/time-entries/:id", "DELETE /api/time-entries/:id",
     "POST /api/timer/start", "POST /api/timer/stop", "GET /api/admin-exists",
     "GET /api/users", "POST /api/users", "PUT /api/users/:id",
     "POST /api/users/:id/promote", "GET /api/holidays", "POST /api/holidays",
     "PUT /api/holidays/:id", "DELETE /api/holidays/:id", "GET /api/reports/export",
     "GET /api/reports/data", "POST /api/seed", "GET /api/groups", "POST /api/groups",
     "PUT /api/groups/:id", "DELETE /api/groups/:id", "GET /api/groups/:id/users"}

\* a faulty variant: the seed endpoint has no guard
requiresSession_SeedOpen(route) == route \notin {"GET /api/admin-exists", "POST /api/seed"}

\* the handler begins with if (!req.isAuthenticated()) return res.sendStatus(401)
requiresSession(route) == route # "GET /api/admin-exists"

\* GET /api/admin-exists: users.some(user => user.role === 'admin') of getAllUsers
adminExists(us) == \E u \in getAllUsers(us) : us[u].role = "admin"

\* A request that carries no session. Past a guard that is not there, the
\* seed handler, which never reads req.user, runs as it does for anyone; a
\* handler that reads req.user.id or req.user.role throws and answers 500.
Unauthenticated(route) ==
    /\ UNCHANGED <<users, holidays, entries, nextId, now, reqs, probe>>
    /\ IF requiresSession(route)
       THEN /\ resp' = Response(route, 401, "", "", {})
            /\ UNCHANGED projects
       ELSE IF route = "GET /api/admin-exists"
       THEN /\ resp' = Response(route, 200, "", "", {[adminExists |-> adminExists(users)]})
            /\ UNCHANGED projects
       ELSE IF route = "POST /api/seed"
       THEN /\ projects' = seedData(projects)
            /\ resp' = Response(route, 200, "", "", {})
       ELSE /\ resp' = Response(route, 500, "", "", {})
            /\ UNCHANGED projects

\* ------------------------------------------------------ routes.ts, reports

\* startTime, endTime and breakMinutes are taken in one unit, the minute, and
\* durations are kept in it: the code's hours are these divided by 60, and
\* its costs likewise.

\* a faulty variant: the difference is not floored at zero
calculateDuration_Unclamped(startTime, endTime, breakMinutes) ==
    (endTime - startTime) - breakMinutes

\* calculateDuration: Math.max(0, diffHours - breakHours)
calculateDuration(startTime, endTime, breakMinutes) ==
    LET diff == endTime - startTime
        net == diff - breakMinutes
    IN  IF net > 0 THEN net ELSE 0

\* Math.max(0, hours - breakHours) of one row; 0 unless both times are set
actualHours(row) ==
    IF row.endTime = NULL THEN 0
    ELSE LET hours == row.endTime - row.startTime
             net == hours - row.breakMinutes
         IN  IF net > 0 THEN net ELSE 0

\* a faulty variant: the break is paid
entryCosts_Gross(row) ==
    IF row.hourlyRate = NULL \/ row.endTime = NULL THEN 0
    ELSE (row.endTime - row.startTime) * row.hourlyRate

\* the cost of one row: actualHours * parseFloat(hourlyRate) when the user has a rate
entryCosts(row) == IF row.hourlyRate = NULL THEN 0 ELSE actualHours(row) * row.hourlyRate

RECURSIVE sumHours(_)
sumHours(rows) ==
    IF rows = {} THEN 0
    ELSE LET r == CHOOSE x \in rows : TRUE IN actualHours(r) + sumHours(rows \ {r})

RECURSIVE sumCosts(_)
sumCosts(rows) ==
    IF rows = {} THEN 0
    ELSE LET r == CHOOSE x \in rows : TRUE IN entryCosts(r) + sumCosts(rows \ {r})

calculateHoursAndCosts(rows, includeCosts) ==
    [totalHours |-> sumHours(rows),
     totalCosts |-> IF includeCosts THEN sumCosts(rows) ELSE 0]

\* new Date(entry.date).toISOString().split('T')[0]: the calendar day, as a day number
DayOf(date) == date \div TicksPerDay

\* date.getDay(), 0 = Sunday; day 0 of the epoch was a Thursday
Weekday(day) == (day + 4) % 7

\* a faulty variant: the week starts on Monday
WeekOf_MondayStart(date) == DayOf(date) - ((Weekday(DayOf(date)) + 6) % 7)

\* the day the Sunday-aligned week of a date starts
WeekOf(date) == DayOf(date) - Weekday(DayOf(date))

\* the days of the months of a year that is no leap year, as 1970 and 1971 are
DaysInMonth == <<31, 28, 31, 30, 31, 30, 31, 31, 30, 31, 30, 31>>

RECURSIVE DaysBefore(_)
DaysBefore(month) == IF month = 0 THEN 0 ELSE DaysInMonth[month] + DaysBefore(month - 1)

\* getFullYear() and getMonth() of a date of 1970 or 1971, as months since
\* January 1970
MonthOf(date) ==
    LET year == DayOf(date) \div 365
        day == DayOf(date) % 365
    IN  12 * year + CHOOSE m \in 0..11 : DaysBefore(m) <= day /\ day < DaysBefore(m + 1)

\* entry.project?.name || 'Ohne Projekt'
ProjectOf(row) == IF row.projectName = "" THEN "Ohne Projekt" ELSE row.projectName

\* the key under which a grouping files a row
KeyOf(row, groupBy) ==
    CASE groupBy = "project" -> ProjectOf(row)
      [] groupBy = "user" -> row.userName
      [] groupBy = "week" -> WeekOf(row.date)
      [] groupBy = "month" -> MonthOf(row.date)
      [] OTHER -> DayOf(row.date)

\* a faulty variant: rows without endTime are left out of the groups
GroupRows_CompletedOnly(rows, groupBy, includeCosts) ==
    {LET members == {r \in rows : r.endTime # NULL /\ KeyOf(r, groupBy) = KeyOf(first, groupBy)}
         stats == calculateHoursAndCosts(members, includeCosts)
     IN  [groupBy |-> groupBy, key |-> KeyOf(first, groupBy), entries |-> members,
          totalHours |-> stats.totalHours, totalCosts |-> stats.totalCosts]
     : first \in rows}

\* groupByDay, groupByProject, groupByUser, groupByWeek, groupByMonth
GroupRows(rows, groupBy, includeCosts) ==
    {LET members == {r \in rows : KeyOf(r, groupBy) = KeyOf(first, groupBy)}
         stats == calculateHoursAndCosts(members, includeCosts)
     IN  [groupBy |-> groupBy, key |-> KeyOf(first, groupBy), entries |-> members,
          totalHours |-> stats.totalHours, totalCosts |-> stats.totalCosts]
     : first \in rows}

\* switch (groupBy): a caller who is no admin gets the grouping by day for 'user'
processedData(caller, rows, groupBy, showCosts) ==
    IF groupBy \in {"project", "week", "month"} THEN GroupRows(rows, groupBy, showCosts)
    ELSE IF groupBy = "user" /\ isAdmin(caller) THEN GroupRows(rows, "user", showCosts)
    ELSE GroupRows(rows, "day", showCosts)

\* generateCSV: for an admin one line per entry, otherwise one line per group
generateCSV(data, includeCosts, admin) ==
    IF data = {} THEN [kind |-> "empty", lines |-> {}]
    ELSE IF admin /\ \E g \in data : g.entries # {}
    THEN [kind |-> "detail",
          lines |-> {[entry |-> r.id, date |-> r.date, startTime |-> r.startTime,
                      endTime |-> r.endTime,
                      duration |-> IF r.endTime = NULL THEN 0
                                   ELSE calculateDuration(r.startTime, r.endTime,
                                                          r.breakMinutes),
                      breakMinutes |-> r.breakMinutes, user |-> r.userName,
                      project |-> ProjectOf(r),
                      hourlyRate |-> IF includeCosts /\ r.hourlyRate # NULL
                                     THEN r.hourlyRate ELSE 0,
                      costs |-> IF includeCosts THEN entryCosts(r) ELSE 0]
                     : r \in UNION {g.entries : g \in data}}]
    ELSE [kind |-> "summary",
          lines |-> {[period |-> g.key, totalHours |-> g.totalHours,
                      count |-> Cardinality(g.entries),
                      costs |-> IF includeCosts THEN g.totalCosts ELSE 0]
                     : g \in data}]

\* the rows GET /api/time-entries reads
ListedEntries(caller, q) ==
    IF isAdmin(caller) /\ q.userId # ""
    THEN getTimeEntriesByUser(entries, q.userId, q.range[1], q.range[2])
    ELSE IF isAdmin(caller) /\ q.showAll
    THEN getAllTimeEntries(entries, q.range[1], q.range[2])
    ELSE getTimeEntriesByUser(entries, caller, q.range[1], q.range[2])

\* the rows GET /api/reports/data and GET /api/reports/export read
ReportedEntries(caller, q) ==
    IF isAdmin(caller) /\ q.userId # ""
    THEN getTimeEntriesByUser(entries, q.userId, q.range[1], q.range[2])
    ELSE IF isAdmin(caller) /\ q.userId = ""
    THEN getAllTimeEntries(entries, q.range[1], q.range[2])
    ELSE getTimeEntriesByUser(entries, caller, q.range[1], q.range[2])

Unwritten == UNCHANGED <<users, projects, holidays, entries, nextId, now, reqs, probe>>

\* GET /api/time-entries
GetTimeEntries(caller, q) ==
    /\ resp' = Response("getTimeEntries", 200, "", caller,
                        [query |-> q, entries |-> Rows(entries, users, projects, ListedEntries(caller, q))])
    /\ Unwritten

\* GET /api/reports/data
GetReportsData(caller, q) ==
    /\ IF q.range[1] = NULL \/ q.range[2] = NULL
       THEN resp' = Response("reportsData", 400, "dates", caller, [query |-> q])
       ELSE LET rows == Rows(entries, users, projects, ReportedEntries(caller, q))
                showCosts == isAdmin(caller)
            IN  resp' = Response("reportsData", 200, "", caller,
                                 [query |-> q,
                                  data |-> processedData(caller, rows, q.groupBy, showCosts),
                                  isAdmin |-> isAdmin(caller),
                                  totalEntries |-> Cardinality(rows)])
    /\ Unwritten

\* GET /api/reports/export; every format is answered with the CSV
GetReportsExport(caller, q) ==
    /\ IF q.range[1] = NULL \/ q.range[2] = NULL
       THEN resp' = Response("reportsExport", 400, "dates", caller, [query |-> q])
       ELSE LET rows == Rows(entries, users, projects, ReportedEntries(caller, q))
                showCosts == isAdmin(caller) /\ q.includeCosts
                data == processedData(caller, rows, q.groupBy, showCosts)
            IN  resp' = Response("reportsExport", 200, "", caller,
                                 [query |-> q, data |-> data,
                                  csv |-> generateCSV(data, showCosts, isAdmin(caller))])
    /\ Unwritten

\* ------------------------------------- client: the balance engine

\* a faulty variant: only entries without endTime are skipped
calculateWorkingHours_CountsRunning(rows) ==
    sumHours({r \in rows : r.endTime # NULL})

\* calculateWorkingHours: an entry without endTime, or with isRunning, adds
\* nothing; any other adds Math.max(0, diffHours - breakHours)
calculateWorkingHours(rows) ==
    sumHours({r \in rows : r.endTime # NULL /\ ~r.isRunning})

\* the smallest integer not below a / b, for b > 0
Ceil(a, b) == -((-a) \div b)

\* getStartOfWeek: the day of the Monday on or before the date
getStartOfWeek(date) ==
    LET day == Weekday(DayOf(date))
    IN  DayOf(date) - day + (IF day = 0 THEN -6 ELSE 1)

\* todayNormalized.setHours(23, 59, 59, 999): the windows end with today
windowEnd(today) == DayOf(today)

\* BalanceCards: what the dashboard computes of the caller's entries (the
\* answer of GET /api/time-entries), the caller's user record and the clock
BalanceCards(today, timeEntries, user) ==
    LET dayOfWeek == Weekday(DayOf(today))
        daysToMonday == IF dayOfWeek = 0 THEN 6 ELSE dayOfWeek - 1
        startOfWeek == DayOf(today) - daysToMonday
        startOfMonth == 365 * (MonthOf(today) \div 12) + DaysBefore(MonthOf(today) % 12)
        todayEntries == {e \in timeEntries : DayOf(e.date) = DayOf(today)}
        weekEntries == {e \in timeEntries :
                          DayOf(e.date) >= startOfWeek /\ DayOf(e.date) <= windowEnd(today)}
        monthEntries == {e \in timeEntries :
                           DayOf(e.date) >= startOfMonth /\ DayOf(e.date) <= windowEnd(today)}
        todayHours == calculateWorkingHours(todayEntries)
        weekHours == calculateWorkingHours(weekEntries)
        monthHours == calculateWorkingHours(monthEntries)
        \* user?.targetHoursPerDay || 8, in minutes
        targetHoursPerDay ==
            60 * (IF user.targetHoursPerDay \in {NULL, 0} THEN 8 ELSE user.targetHoursPerDay)
        allTimeHours == calculateWorkingHours(timeEntries)
        earliest == CHOOSE d \in {e.date : e \in timeEntries} :
                        \A e \in timeEntries : d <= e.date
        totalWorkingDays == IF timeEntries = {} THEN 0
                            ELSE Ceil(today - earliest, TicksPerDay)
        weeks == (totalWorkingDays \div 7) * 5
        expectedTotalHours == (IF weeks > 1 THEN weeks ELSE 1) * targetHoursPerDay
    IN  [todayEntries |-> todayEntries, weekEntries |-> weekEntries,
         monthEntries |-> monthEntries,
         todayHours |-> todayHours, weekHours |-> weekHours,
         monthHours |-> monthHours, allTimeHours |-> allTimeHours,
         todayBalance |-> todayHours - targetHoursPerDay,
         weekBalance |-> weekHours - targetHoursPerDay * 5,
         monthBalance |-> monthHours - targetHoursPerDay * 22,
         totalBalance |-> allTimeHours - expectedTotalHours]

\* ---------------------------------------------------------- request inputs

Body(date, startTime, endTime, isRunning) ==
    [projectId |-> NULL, date |-> date, startTime |-> startTime, endTime |-> endTime,
     breakMinutes |-> 0, isRunning |-> isRunning]

InvalidBody == Body(INVALID, INVALID, NULL, FALSE)

\* manual entries over every range of 0..MaxTime
CreateBodies ==
    {Body(d, s, e, r) : d \in Dates, s \in Times, e \in Times \cup {NULL}, r \in BOOLEAN}
        \cup {InvalidBody}

\* the bodies the whole-API runs send
ApiBodies ==
    {Body(d, 0, e, r) : d \in Dates, e \in {NULL, 1}, r \in BOOLEAN} \cup {InvalidBody}

ApiPatches ==
    {[isRunning |-> r] : r \in BOOLEAN}
        \cup {[endTime |-> t] : t \in Clock}
        \cup {[userId |-> u] : u \in Users}
        \cup {[date |-> d] : d \in Dates \cup {INVALID}}

\* the body that marks a manual entry as running
TimerBodies == {Body(0, 0, NULL, TRUE)}

\* the bodies the read runs fill the table with
ReadBodies == {Body(0, 0, 1, FALSE), Body(MaxDate, 0, NULL, FALSE)}

\* startDate and endDate of a query: both missing, the first date, or every date
DateRanges == {<<NULL, NULL>>, <<0, 0>>, <<0, MaxDate>>}

GroupBys == {"day", "week", "month", "project", "user"}

ListQueries == [range : DateRanges, userId : Users \cup {""}, showAll : BOOLEAN]

DataQueries == [range : DateRanges, groupBy : GroupBys, userId : Users \cup {""}]

ExportQueries ==
    [range : DateRanges, groupBy : GroupBys, userId : Users \cup {""},
     includeCosts : BOOLEAN]

\* the bodies of POST /api/projects: two names, and a body without a name
ProjectBodies == {[name |-> "Alpha"], [name |-> "Beta"], [description |-> ""]}

\* the body with a userId added, as the entry form of an admin sends it
OnBehalfOf(body, userId) ==
    [f \in DOMAIN body \cup {"userId"} |-> IF f = "userId" THEN userId ELSE body[f]]

\* manual entries that carry both times, the start before the end
RangeBodies == {b \in CreateBodies \ {InvalidBody} :
                  b.endTime # NULL /\ b.startTime < b.endTime}

\* the bodies of PUT /api/users/:id
UserPatches == {[isActive |-> FALSE], [isActive |-> TRUE], [role |-> "employee"]}

\* the bodies of PUT /api/projects/:id
ProjectPatches == {[name |-> "Gamma"]}

\* the bodies a holiday is created and changed with; one has no name
HolidayBodies == {[name |-> "Neujahr", date |-> 0], [name |-> "Ostern", date |-> MaxDate],
                  [date |-> 0]}

HolidayPatches == {b \in HolidayBodies : "name" \in DOMAIN b}

\* completed entries booked on a project; the column references projects.id,
\* so the project exists
BookedBodies(ps) ==
    {[Body(0, 0, 1, FALSE) EXCEPT !.projectId = p] : p \in DOMAIN ps \cup {NULL}}

\* the report of everything of the first date, by project
ByProject == [range |-> <<0, 0>>, groupBy |-> "project", userId |-> ""]

\* completed rows of one user, for the overlap predicate
CompletedRows ==
    {EntryData("u1", Body(d, s, e, FALSE)) : d \in Dates, s \in Times, e \in Times}

\* ------------------------------------------------------------------ specs

Slots == 1..MaxRequests

Idle == [op |-> "none", pc |-> "idle", caller |-> "", body |-> InvalidBody,
         runningEntry |-> NULL, status |-> 0]

NoProbe == [fn |-> "none"]

\* ---------------------------------------------- handlers, await by await

\* A request in flight holds what the handler has in its local variables.
Request(op, pc, caller, body, runningEntry, status) ==
    [op |-> op, pc |-> pc, caller |-> caller, body |-> body,
     runningEntry |-> runningEntry, status |-> status]

At(slot, op, pc) == reqs[slot].op = op /\ reqs[slot].pc = pc

Goto(slot, pc) == reqs' = [reqs EXCEPT ![slot].pc = pc]

Finish(slot, status) == reqs' = [reqs EXCEPT ![slot].pc = "done", ![slot].status = status]

\* POST /api/timer/start arrives
BeginTimerStart(slot, caller) ==
    /\ reqs[slot].pc = "idle"
    /\ reqs' = [reqs EXCEPT ![slot] = Request("timerStart", "read", caller, InvalidBody, NULL, 0)]
    /\ UNCHANGED <<users, projects, holidays, entries, nextId, now, resp, probe>>

\* const runningEntry = await storage.getRunningTimeEntry(req.user.id)
ReadRunning(slot) ==
    /\ At(slot, "timerStart", "read")
    /\ LET running == getRunningTimeEntry(entries, reqs[slot].caller)
       IN  \/ running = {} /\ Goto(slot, "insert")
           \/ \E runningEntry \in running :
                reqs' = [reqs EXCEPT ![slot].pc = "stop", ![slot].runningEntry = runningEntry]
    /\ UNCHANGED <<users, projects, holidays, entries, nextId, now, resp, probe>>

\* await storage.updateTimeEntry(runningEntry.id, {endTime: new Date(), isRunning: false})
StopRunning(slot) ==
    /\ At(slot, "timerStart", "stop")
    /\ entries' = StopEntry(entries, reqs[slot].runningEntry, now)
    /\ Goto(slot, "insert")
    /\ UNCHANGED <<users, projects, holidays, nextId, now, resp, probe>>

\* const newEntry = await storage.createTimeEntry({...isRunning: true}); res.status(201)
InsertTimer(slot) ==
    /\ At(slot, "timerStart", "insert")
    /\ entries' = createTimeEntry(entries, nextId, NewTimerEntry(reqs[slot].caller, now), now)
    /\ nextId' = nextId + 1
    /\ Finish(slot, 201)
    /\ resp' = Response("timerStart", 201, "", reqs[slot].caller, {})
    /\ UNCHANGED <<users, projects, holidays, now, probe>>

\* POST /api/time-entries arrives and its body is parsed
BeginCreate(slot, caller, body) ==
    /\ reqs[slot].pc = "idle"
    /\ IF body.date = INVALID \/ body.startTime = INVALID
       THEN /\ reqs' = [reqs EXCEPT ![slot] = Request("createEntry", "done", caller, body, NULL, 400)]
            /\ resp' = Response("createEntry", 400, "invalid", caller, {})
       ELSE /\ reqs' = [reqs EXCEPT ![slot] = Request("createEntry", "read", caller, body, NULL, 0)]
            /\ UNCHANGED resp
    /\ UNCHANGED <<users, projects, holidays, entries, nextId, now, probe>>

\* const existingEntries = await storage.getTimeEntriesByUser(...); hasOverlap
ReadExisting(slot) ==
    /\ At(slot, "createEntry", "read")
    /\ LET caller == reqs[slot].caller
           entryData == EntryData(caller, reqs[slot].body)
           existingEntries ==
               getTimeEntriesByUser(entries, caller, entryData.date, entryData.date)
       IN  IF hasOverlap(entries, existingEntries, entryData)
           THEN RejectOverlap(caller, entryData) /\ Finish(slot, 400)
           ELSE Goto(slot, "insert") /\ UNCHANGED <<entries, nextId, resp>>
    /\ UNCHANGED <<users, projects, holidays, now, probe>>

\* const entry = await storage.createTimeEntry(entryData); res.status(201)
InsertCreate(slot) ==
    /\ At(slot, "createEntry", "insert")
    /\ entries' = createTimeEntry(entries, nextId,
                                  EntryData(reqs[slot].caller, reqs[slot].body), now)
    /\ nextId' = nextId + 1
    /\ Finish(slot, 201)
    /\ resp' = Response("createEntry", 201, "", reqs[slot].caller, {})
    /\ UNCHANGED <<users, projects, holidays, now, probe>>

\* the bodies concurrent manual entries carry
ConcBodies == {Body(0, s, e, FALSE) : s \in 0..1, e \in 1..MaxTime} \cup {InvalidBody}

\* the users table: an admin without an hourly rate and with the default
\* target, and an employee with the given target
UserTable(target) ==
    [u \in Users |->
       IF u = "u2"
       THEN [role |-> "admin", name |-> "Ada Admin", hourlyRate |-> NULL,
             targetHoursPerDay |-> 8, isActive |-> TRUE]
       ELSE [role |-> "employee", name |-> "Emil Employee", hourlyRate |-> 20,
             targetHoursPerDay |-> target, isActive |-> TRUE]]

InitUsers == users = UserTable(8)

InitStore ==
    /\ InitUsers
    /\ projects = <<>>
    /\ holidays = <<>>
    /\ entries = <<>>
    /\ nextId = 1
    /\ now = 0
    /\ resp = Response("none", 0, "", "", {})
    /\ reqs = [slot \in Slots |-> Idle]

Init == InitStore /\ probe = NoProbe

\* no more than max rows are ever inserted
Within(max) == nextId' <= max + 1

\* The whole write API, one request after the other, all within one clock tick.
Next ==
    \/ \E c \in Users, b \in ApiBodies : PostTimeEntry(c, b) /\ Within(MaxEntries)
    \/ \E c \in Users, id \in 1..MaxEntries, p \in ApiPatches : PutTimeEntry(c, id, p)
    \/ \E c \in Users, id \in 1..MaxEntries : DeleteTimeEntry(c, id)
    \/ \E c \in Users : TimerStart(c) /\ now' = now /\ Within(MaxEntries)
    \/ \E c \in Users : TimerStop(c)

Spec == Init /\ [][Next]_vars

\* Manual entry: POST /api/time-entries with every range.
NextCreate ==
    \E c \in Users, b \in CreateBodies : PostTimeEntry(c, b) /\ Within(MaxEntries)

SpecCreate == Init /\ [][NextCreate]_vars

\* Timer runs: start and stop with the clock advancing, and manual entries
\* that carry isRunning = true.
NextTimer ==
    \/ \E c \in Users : TimerStart(c) /\ Within(MaxTimerEntries)
    \/ \E c \in Users : TimerStop(c)
    \/ \E c \in Users, b \in TimerBodies : PostTimeEntry(c, b) /\ Within(MaxTimerEntries)
    \/ Tick

SpecTimer == Init /\ [][NextTimer]_vars

\* Requests of every user served concurrently: each handler runs from one
\* await to the next, and the steps of the requests in flight interleave.
NextConc ==
    \/ \E slot \in Slots, c \in Users : BeginTimerStart(slot, c)
    \/ \E slot \in Slots : ReadRunning(slot)
    \/ \E slot \in Slots : StopRunning(slot)
    \/ \E slot \in Slots : InsertTimer(slot)
    \/ \E slot \in Slots, c \in Users, b \in ConcBodies : BeginCreate(slot, c, b)
    \/ \E slot \in Slots : ReadExisting(slot)
    \/ \E slot \in Slots : InsertCreate(slot)
    \/ Tick

SpecConc == Init /\ [][NextConc]_vars

\* Projects: created and deactivated by the admin, booked by both users,
\* listed and reported by project.
NextProject ==
    \/ \E c \in Users, b \in ProjectBodies :
         PostProject(c, b) /\ Cardinality(DOMAIN projects') <= MaxProjects
    \/ \E c \in Users, id \in 1..MaxProjects : DeleteProject(c, id)
    \/ \E c \in Users : GetProjects(c)
    \/ \E c \in Users, b \in BookedBodies(projects) :
         PostTimeEntry(c, b) /\ Within(MaxEntries)
    \/ \E c \in Users : GetReportsData(c, ByProject)

SpecProject == Init /\ [][NextProject]_vars

\* Reads: manual entries of both users, and the three read endpoints with
\* every query.
NextRead ==
    \/ \E c \in Users, b \in ReadBodies : PostTimeEntry(c, b) /\ Within(MaxEntries)
    \/ \E c \in Users, q \in ListQueries : GetTimeEntries(c, q)
    \/ \E c \in Users, q \in DataQueries : GetReportsData(c, q)
    \/ \E c \in Users, q \in ExportQueries : GetReportsExport(c, q)

SpecRead == Init /\ [][NextRead]_vars

\* hasOverlap of candidate against the table that holds just existing
OverlapAgainst(candidate, existing) ==
    LET es == createTimeEntry(<<>>, 1, existing, 0)
    IN  hasOverlap(es, getTimeEntriesByUser(es, candidate.userId, candidate.date,
                                            candidate.date), candidate)

\* The overlap predicate applied to two completed entries, each as candidate
\* against the other.
InitOverlap ==
    /\ InitStore
    /\ probe \in [fn : {"hasOverlap"}, a : CompletedRows, b : CompletedRows,
                  done : {FALSE}, ab : {FALSE}, ba : {FALSE}]

ApplyOverlap ==
    /\ probe.fn = "hasOverlap" /\ ~probe.done
    /\ probe' = [probe EXCEPT !.done = TRUE,
                              !.ab = OverlapAgainst(probe.a, probe.b),
                              !.ba = OverlapAgainst(probe.b, probe.a)]
    /\ UNCHANGED <<users, projects, holidays, entries, nextId, now, resp, reqs>>

SpecOverlap == InitOverlap /\ [][ApplyOverlap]_vars

\* the dates of the rows reports are computed of: two instants of a Thursday,
\* the Saturday and the Sunday after it, and the first day of the next month
ReportDates ==
    {0, 1, 2 * TicksPerDay + 1, 3 * TicksPerDay, 31 * TicksPerDay}

\* one project, as POST /api/projects stores it
ReportProjects == createProject(<<>>, 1, [name |-> "Alpha"])

\* rows of either user, with and without a project, running since 0 or
\* completed from 0 to 480 with a break of 30: 7.5 hours net
ReportEntries ==
    {[userId |-> u, projectId |-> p, date |-> d, startTime |-> 0, endTime |-> t[1],
      breakMinutes |-> t[2], isRunning |-> t[1] = NULL]
     : u \in Users, p \in {NULL, 1}, d \in ReportDates, t \in {<<NULL, 0>>, <<480, 30>>}}

RECURSIVE ReportTables(_)
ReportTables(n) ==
    IF n = 0 THEN {<<>>}
    ELSE LET smaller == ReportTables(n - 1)
         IN  smaller \cup {createTimeEntry(es, n, e, 0) :
                             es \in {t \in smaller : DOMAIN t = 1..(n - 1)},
                             e \in ReportEntries}

\* The aggregation of a report, applied to the rows of a table.
InitReport ==
    /\ InitUsers
    /\ projects = ReportProjects
    /\ holidays = <<>>
    /\ entries \in ReportTables(MaxReportRows)
    /\ nextId = Cardinality(DOMAIN entries) + 1
    /\ now = 0
    /\ resp = Response("none", 0, "", "", {})
    /\ reqs = [slot \in Slots |-> Idle]
    /\ probe \in [fn : {"processedData"}, caller : Users, groupBy : GroupBys,
                  showCosts : BOOLEAN, done : {FALSE}, data : {{}}]

ApplyReport ==
    /\ probe.fn = "processedData" /\ ~probe.done
    /\ probe' = [probe EXCEPT
                   !.done = TRUE,
                   !.data = processedData(probe.caller,
                                          Rows(entries, users, projects, DOMAIN entries),
                                          probe.groupBy, probe.showCosts)]
    /\ UNCHANGED <<users, projects, holidays, entries, nextId, now, resp, reqs>>

SpecReport == InitReport /\ [][ApplyReport]_vars

\* the moments the dashboard is opened at: a Wednesday, the Sunday that ends
\* its week, and Sunday the first of the next month
BalanceNows == {6 * TicksPerDay + 1, 10 * TicksPerDay, 31 * TicksPerDay}

\* the dates of the rows the dashboard is computed of: the Sunday before the
\* Wednesday's week, its Monday, the Wednesday, its Thursday and Sunday, and
\* the first of the next month
BalanceDates == {d * TicksPerDay : d \in {3, 4, 6, 7, 10, 31}}

\* rows of either user: running since 0, marked running with an endTime, or
\* completed from 0 to 510 with a break of 30: 8 hours net
BalanceEntries ==
    {[userId |-> u, projectId |-> NULL, date |-> d, startTime |-> 0, endTime |-> t[1],
      breakMinutes |-> t[2], isRunning |-> t[3]]
     : u \in Users, d \in BalanceDates,
       t \in {<<NULL, 0, TRUE>>, <<480, 0, TRUE>>, <<510, 30, FALSE>>}}

RECURSIVE BalanceTables(_)
BalanceTables(n) ==
    IF n = 0 THEN {<<>>}
    ELSE LET smaller == BalanceTables(n - 1)
         IN  smaller \cup {createTimeEntry(es, n, e, 0) :
                             es \in {t \in smaller : DOMAIN t = 1..(n - 1)},
                             e \in BalanceEntries}

\* the target hours per day the employee is given
TargetHours == {0, 8}

\* The dashboard of a user, computed of a table of entries; a running timer
\* may be stopped before.
InitBalance ==
    /\ \E target \in TargetHours : users = UserTable(target)
    /\ projects = <<>>
    /\ holidays = <<>>
    /\ entries \in BalanceTables(MaxBalanceRows)
    /\ nextId = Cardinality(DOMAIN entries) + 1
    /\ now \in BalanceNows
    /\ resp = Response("none", 0, "", "", {})
    /\ reqs = [slot \in Slots |-> Idle]
    /\ probe \in [fn : {"BalanceCards"}, caller : Users, done : {FALSE}, cards : {{}}]

\* the query of the dashboard: GET /api/time-entries without parameters
NoQuery == [range |-> <<NULL, NULL>>, userId |-> "", showAll |-> FALSE]

ApplyBalance ==
    /\ probe.fn = "BalanceCards" /\ ~probe.done
    /\ probe' = [probe EXCEPT
                   !.done = TRUE,
                   !.cards = BalanceCards(now,
                                          Rows(entries, users, projects,
                                               ListedEntries(probe.caller, NoQuery)),
                                          users[probe.caller])]
    /\ UNCHANGED <<users, projects, holidays, entries, nextId, now, resp, reqs>>

NextBalance ==
    \/ \E c \in Users : ~probe.done /\ TimerStop(c)
    \/ ApplyBalance

SpecBalance == InitBalance /\ [][NextBalance]_vars

\* the minutes the durations are computed of
Minutes == {k * MinuteStep : k \in 0..MaxSteps}

\* calculateDuration, and the net hours calculateHoursAndCosts adds up for a
\* row of the same times, applied to a start, an end and a break.
InitDuration ==
    /\ InitStore
    /\ probe \in [fn : {"calculateDuration"}, startTime : Minutes, endTime : Minutes,
                  breakMinutes : Minutes, done : {FALSE}, duration : {0}, hours : {0}]

ApplyDuration ==
    /\ probe.fn = "calculateDuration" /\ ~probe.done
    /\ probe' = [probe EXCEPT
                   !.done = TRUE,
                   !.duration = calculateDuration(probe.startTime, probe.endTime,
                                                  probe.breakMinutes),
                   !.hours = actualHours([startTime |-> probe.startTime,
                                          endTime |-> probe.endTime,
                                          breakMinutes |-> probe.breakMinutes])]
    /\ UNCHANGED <<users, projects, holidays, entries, nextId, now, resp, reqs>>

SpecDuration == InitDuration /\ [][ApplyDuration]_vars

\* Timers started on projects: the admin creates projects, both users start
\* timers on project ids that exist or do not, and stop them.
NextTimerProject ==
    \/ \E c \in Users, b \in ProjectBodies :
         PostProject(c, b) /\ Cardinality(DOMAIN projects') <= MaxProjects
    \/ \E c \in Users, p \in 1..MaxProjects \cup {NULL} :
         TimerStartOn(c, p) /\ Within(MaxEntries)
    \/ \E c \in Users : TimerStop(c)
    \/ \E c \in Users, id \in 1..MaxEntries : DeleteTimeEntry(c, id)
    \/ Tick

SpecTimerProject == Init /\ [][NextTimerProject]_vars

\* Administration: projects and holidays are created, changed and deleted
\* under ids that exist and ids that do not.
NextAdmin ==
    \/ \E c \in Users, b \in ProjectBodies :
         PostProject(c, b) /\ Cardinality(DOMAIN projects') <= MaxProjects
    \/ \E c \in Users, id \in 1..MaxProjects, b \in ProjectPatches : PutProject(c, id, b)
    \/ \E c \in Users, id \in 1..MaxProjects : DeleteProject(c, id)
    \/ \E c \in Users, b \in HolidayBodies : PostHoliday(c, b)
    \/ \E c \in Users, id \in 1..MaxHolidays, b \in HolidayPatches : PutHoliday(c, id, b)
    \/ \E c \in Users, id \in 1..MaxHolidays : DeleteHoliday(c, id)

SpecAdmin == Init /\ [][NextAdmin]_vars

\* Sessions: callers with a session fill the store, and requests without one
\* arrive at every endpoint.
NextSession ==
    \/ \E c \in Users, b \in ReadBodies : PostTimeEntry(c, b) /\ Within(MaxEntries)
    \/ \E c \in Users, id \in 1..MaxSeeded : DeleteProject(c, id)
    \/ \E c \in Users : Seed(c) /\ Cardinality(DOMAIN projects') <= MaxSeeded
    \/ \E route \in Routes : Unauthenticated(route)

SpecSession == Init /\ [][NextSession]_vars

\* Timer runs of both users, with the running entry queried in between.
NextRunning ==
    \/ \E c \in Users : TimerStart(c) /\ Within(MaxTimerEntries)
    \/ \E c \in Users : TimerStop(c)
    \/ \E c \in Users, b \in TimerBodies : PostTimeEntry(c, b) /\ Within(MaxTimerEntries)
    \/ \E c \in Users : GetRunning(c)
    \/ Tick

SpecRunning == Init /\ [][NextRunning]_vars

\* Projects created, renamed, deactivated and seeded by both users.
NextSeed ==
    \/ \E c \in Users, b \in ProjectBodies :
         PostProject(c, b) /\ Cardinality(DOMAIN projects') <= MaxSeeded
    \/ \E c \in Users, id \in 1..MaxSeeded, b \in ProjectPatches : PutProject(c, id, b)
    \/ \E c \in Users, id \in 1..MaxSeeded : DeleteProject(c, id)
    \/ \E c \in Users : Seed(c) /\ Cardinality(DOMAIN projects') <= MaxSeeded

SpecSeed == Init /\ [][NextSeed]_vars

\* the users table before the first admin is set up: employees only
NoAdminTable == [u \in Users |-> [UserTable(8)[u] EXCEPT !.role = "employee"]]

\* Set-up of the first admin: the installation begins with or without an
\* admin, users promote themselves and each other, admins change users, and
\* the admin-exists question is asked without a session.
InitPromote ==
    /\ users \in {UserTable(8), NoAdminTable}
    /\ projects = <<>>
    /\ holidays = <<>>
    /\ entries = <<>>
    /\ nextId = 1
    /\ now = 0
    /\ resp = Response("none", 0, "", "", {})
    /\ reqs = [slot \in Slots |-> Idle]
    /\ probe = NoProbe

NextPromote ==
    \/ \E c \in Users, id \in Users : Promote(c, id)
    \/ \E c \in Users, id \in Users, b \in UserPatches : PutUser(c, id, b)
    \/ Unauthenticated("GET /api/admin-exists")

SpecPromote == InitPromote /\ [][NextPromote]_vars

\* Entries created on behalf of others: every manual entry is sent with
\* the userId of a user other than the caller, and timers are started and
\* stopped.
NextOwner ==
    \/ \E c \in Users, b \in ReadBodies \cup TimerBodies :
         \E u \in Users \ {c} :
            PostTimeEntry(c, OnBehalfOf(b, u)) /\ Within(MaxTimerEntries)
    \/ \E c \in Users : TimerStartOn(c, NULL) /\ Within(MaxTimerEntries)
    \/ \E c \in Users : TimerStop(c)
    \/ Tick

SpecOwner == Init /\ [][NextOwner]_vars

\* Manual entries with proper ranges only, one request after the other, from
\* the empty store.
NextRanges ==
    \E c \in Users, b \in RangeBodies : PostTimeEntry(c, b) /\ Within(MaxTimerEntries)

SpecRanges == Init /\ [][NextRanges]_vars

\* ----------------------------------------------------------------- claims

RunningOf(u) == getRunningTimeEntry(entries, u)

\* C1: in every state the API can reach, each user owns at most one time
\* entry with isRunning = true.
C1_AtMostOneRunning == \A u \in Users : Cardinality(RunningOf(u)) <= 1

\* C2: in every state the API can reach, every time entry with
\* isRunning = true has no endTime.
C2_RunningHasNoEndTime ==
    \A id \in DOMAIN entries : entries[id].isRunning => entries[id].endTime = NULL

\* C3: a timer start by a user who has a running entry leaves that user with
\* exactly one running entry, the new one; every entry that was running is
\* stopped, with an endTime read between the arrival of the request and the
\* start time of the new entry.
C3_StartLeavesOneRunning ==
    [][\A c \in Users :
        (TimerStart(c) /\ RunningOf(c) # {}) =>
            /\ getRunningTimeEntry(entries', c) = {nextId}
            /\ \A id \in RunningOf(c) :
                /\ entries'[id].isRunning = FALSE
                /\ entries'[id].endTime # NULL
                /\ entries'[id].endTime >= now
                /\ entries'[id].endTime <= entries'[nextId].startTime]_vars

\* the fields of a row that a timer stop may not touch, updatedAt among them or not
SameBut(row1, row2, fields) ==
    \A f \in DOMAIN row1 \ fields : row1[f] = row2[f]

StopChangesOnly(c, fields) ==
    IF RunningOf(c) = {}
    THEN resp'.status = 400 /\ entries' = entries
    ELSE \E id \in RunningOf(c) :
            /\ DOMAIN entries' = DOMAIN entries
            /\ entries'[id].isRunning = FALSE
            /\ entries'[id].endTime # NULL
            /\ SameBut(entries[id], entries'[id], fields)
            /\ \A other \in DOMAIN entries \ {id} : entries'[other] = entries[other]

\* C4 as stated: a timer stop without a running entry answers 400 and changes
\* nothing; with one it sets isRunning = false and a non-null endTime on that
\* entry and changes no other field of it and no other entry.
C4_StopTouchesOnlyRunningAndEnd ==
    [][\A c \in Users : TimerStop(c) => StopChangesOnly(c, {"isRunning", "endTime"})]_vars

\* C4 amended: as above, except that the stopped entry's updatedAt is also
\* set, to the time of the stop.
C4_StopTouchesRunningEndUpdated ==
    [][\A c \in Users :
        TimerStop(c) => StopChangesOnly(c, {"isRunning", "endTime", "updatedAt"})]_vars

\* a stop has just succeeded on a timer that was started at an earlier tick
C4_Witness ==
    /\ resp.op = "timerStop" /\ resp.status = 200
    /\ \E id \in DOMAIN entries :
        /\ entries[id].userId = resp.caller
        /\ ~entries[id].isRunning
        /\ entries[id].endTime = now
        /\ entries[id].startTime < now

\* the caller has an entry, among those SameDate relates to the candidate,
\* whose range [s2, e2) meets [s, e)
Conflicts(c, b, SameDate(_, _)) ==
    \E id \in DOMAIN entries :
        /\ entries[id].userId = c
        /\ SameDate(entries[id].date, b.date)
        /\ entries[id].endTime # NULL
        /\ b.startTime < entries[id].endTime
        /\ entries[id].startTime < b.endTime

\* the two dates fall on one calendar day
SameDay(d1, d2) == DayOf(d1) = DayOf(d2)

\* the two dates are one instant
SameInstant(d1, d2) == d1 = d2

RejectedIffConflicts(SameDate(_, _)) ==
    \A c \in {resp'.caller} \cap Users, b \in CreateBodies \ {InvalidBody} :
        (b.endTime # NULL /\ PostTimeEntry(c, b)) =>
            ((resp'.status = 400 /\ resp'.message = "overlap") <=> Conflicts(c, b, SameDate))

\* C7: a valid POST /api/time-entries with both times set is rejected as
\* overlapping exactly when the caller has an entry of the same date (the
\* calendar day the entry is attributed to), with both times, such that
\* s < e2 and s2 < e.
C7_RejectedIffOverlap == [][RejectedIffConflicts(SameDay)]_vars

\* what the handler does decide: rejection exactly when an entry whose date
\* is the very instant of the candidate's date has a range meeting [s, e)
C7_RejectedIffOverlapAtSameInstant == [][RejectedIffConflicts(SameInstant)]_vars

\* a candidate has just been accepted although the caller holds a completed
\* entry of the same calendar day whose range meets the candidate's
C7_Accepted ==
    /\ resp.op = "createEntry" /\ resp.status = 201
    /\ \E i, j \in DOMAIN entries :
        /\ i < j /\ j = nextId - 1
        /\ entries[i].userId = resp.caller /\ entries[j].userId = resp.caller
        /\ SameDay(entries[i].date, entries[j].date)
        /\ entries[i].endTime # NULL /\ entries[j].endTime # NULL
        /\ entries[j].startTime < entries[i].endTime
        /\ entries[i].startTime < entries[j].endTime

\* an overlapping candidate has just been rejected for a caller who holds two
\* entries of one date that touch at an endpoint
C7_Witness ==
    /\ resp.op = "createEntry" /\ resp.status = 400 /\ resp.message = "overlap"
    /\ \E i, j \in DOMAIN entries :
        /\ i # j
        /\ entries[i].userId = resp.caller /\ entries[j].userId = resp.caller
        /\ entries[i].date = entries[j].date
        /\ entries[i].endTime # NULL /\ entries[j].endTime # NULL
        /\ entries[i].startTime < entries[i].endTime
        /\ entries[i].endTime = entries[j].startTime
        /\ entries[j].startTime < entries[j].endTime

\* C8: when POST /api/time-entries detects an overlap it answers 400 and the
\* stored time entries are exactly those from before the request.
C8_OverlapRejectionChangesNothing ==
    [][(resp'.op = "createEntry" /\ resp'.message = "overlap") =>
          (resp'.status = 400 /\ entries' = entries /\ nextId' = nextId)]_vars

\* an overlap has just been rejected while the caller holds a completed entry
C8_Witness ==
    /\ resp.op = "createEntry" /\ resp.status = 400 /\ resp.message = "overlap"
    /\ \E id \in DOMAIN entries :
        entries[id].userId = resp.caller /\ entries[id].endTime # NULL

Done(slot, op) == reqs[slot].op = op /\ reqs[slot].pc = "done"

\* C5: once two interleaved timer starts of one user have both completed,
\* that user has at most one entry with isRunning = true.
C5_ConcurrentStartsLeaveOneRunning ==
    \A s1, s2 \in Slots :
        (s1 # s2 /\ Done(s1, "timerStart") /\ Done(s2, "timerStart")
            /\ reqs[s1].caller = reqs[s2].caller)
        => Cardinality(RunningOf(reqs[s1].caller)) <= 1

\* the ranges of two bodies overlap
BodiesOverlap(b1, b2) ==
    /\ b1.endTime # NULL /\ b2.endTime # NULL
    /\ b1.startTime < b2.endTime /\ b2.startTime < b1.endTime

\* C6: of two interleaved manual entries of one user with the same date and
\* overlapping ranges, at most one is committed.
C6_ConcurrentOverlapOneCommitted ==
    \A s1, s2 \in Slots :
        (s1 # s2 /\ Done(s1, "createEntry") /\ Done(s2, "createEntry")
            /\ reqs[s1].caller = reqs[s2].caller
            /\ reqs[s1].body.date = reqs[s2].body.date
            /\ BodiesOverlap(reqs[s1].body, reqs[s2].body))
        => ~(reqs[s1].status = 201 /\ reqs[s2].status = 201)

\* C9: the overlap predicate is symmetric: for two completed entries A and B
\* of one user and date, A against [B] gives what B against [A] gives.
C9_OverlapSymmetric ==
    (probe.fn = "hasOverlap" /\ probe.done /\ SameDay(probe.a.date, probe.b.date)) =>
        probe.ab = probe.ba

\* the predicate has been applied to two different ranges that overlap
C9_Witness ==
    /\ probe.fn = "hasOverlap" /\ probe.done /\ probe.ab
    /\ probe.a.date = probe.b.date
    /\ probe.a.startTime < probe.b.startTime /\ probe.b.endTime < probe.a.endTime

\* the time entries a read response carries
ReturnedEntries ==
    IF resp.status # 200 THEN {}
    ELSE IF resp.op = "getTimeEntries" THEN resp.body.entries
    ELSE IF resp.op \in {"reportsData", "reportsExport"}
    THEN UNION {g.entries : g \in resp.body.data}
    ELSE {}

\* C10: every time entry that GET /api/time-entries, GET /api/reports/data or
\* GET /api/reports/export returns to a caller who is no admin belongs to
\* that caller, whatever the query.
C10_NonAdminSeesOwnEntries ==
    (resp.caller \in Users /\ users[resp.caller].role # "admin") =>
        \A r \in ReturnedEntries : r.userId = resp.caller

\* a caller who is no admin asked a report for another user's entries, got
\* an entry back, and the table holds an entry of that other user in range
C10_Witness ==
    /\ resp.op = "reportsData" /\ resp.status = 200
    /\ users[resp.caller].role # "admin"
    /\ resp.body.query.userId \notin {"", resp.caller}
    /\ ReturnedEntries # {}
    /\ \E id \in DOMAIN entries :
        /\ entries[id].userId = resp.body.query.userId
        /\ entries[id].date >= resp.body.query.range[1]
        /\ entries[id].date <= resp.body.query.range[2]

\* the caller neither owns entry id nor is an admin
Stranger(c, id) == entries[id].userId # c /\ users[c].role # "admin"

\* what PUT or DELETE of entry id by caller c must answer, 0 when the request
\* is let through
Refusal(c, id) ==
    IF id \notin DOMAIN entries THEN 404 ELSE IF Stranger(c, id) THEN 403 ELSE 0

\* C11: PUT or DELETE /api/time-entries/:id answers 404 for an id that matches
\* no entry and 403 for a caller who neither owns the entry nor is an admin,
\* and then changes no entry; an entry is changed or removed only by a
\* request of its owner or of an admin.
C11_OnlyOwnerOrAdminWrites ==
    [][/\ \A c \in {resp'.caller} \cap Users, id \in 1..MaxEntries :
            /\ \A p \in ApiPatches :
                (PutTimeEntry(c, id, p) /\ Refusal(c, id) # 0) =>
                    (resp'.status = Refusal(c, id) /\ entries' = entries)
            /\ (DeleteTimeEntry(c, id) /\ Refusal(c, id) # 0) =>
                    (resp'.status = Refusal(c, id) /\ entries' = entries)
       /\ \A id \in DOMAIN entries :
            (id \notin DOMAIN entries' \/ entries'[id] # entries[id]) =>
                (resp'.caller \in Users /\ ~Stranger(resp'.caller, id))]_vars

\* a caller who is no admin has just been refused the change of an entry
\* that belongs to somebody else
C11_Witness ==
    /\ resp.op \in {"updateEntry", "deleteEntry"} /\ resp.status = 403
    /\ users[resp.caller].role # "admin"
    /\ \E id \in DOMAIN entries : entries[id].userId # resp.caller

\* C12: the duration of an entry is max(0, (end - start) - breakMinutes)
\* minutes: never negative, 0 when the end is before the start or the break
\* exceeds the span, and 90 for a span of 120 with a break of 30 whatever
\* the start.
C12_DurationIsClampedNet ==
    (probe.fn = "calculateDuration" /\ probe.done) =>
        LET span == probe.endTime - probe.startTime
            net == span - probe.breakMinutes
        IN  /\ probe.duration >= 0
            /\ net >= 0 => probe.duration = net
            /\ (span < 0 \/ probe.breakMinutes > span) => probe.duration = 0
            /\ (span = 120 /\ probe.breakMinutes = 30) => probe.duration = 90
            /\ probe.hours = probe.duration

\* the duration of an entry whose break is longer than its span has been
\* computed
C12_Witness ==
    /\ probe.fn = "calculateDuration" /\ probe.done
    /\ probe.startTime > 0 /\ probe.endTime > probe.startTime
    /\ probe.breakMinutes > probe.endTime - probe.startTime

\* the duration of a span of two hours with half an hour's break, not
\* starting at 0, has been computed
C12_WitnessTwoHours ==
    /\ probe.fn = "calculateDuration" /\ probe.done
    /\ probe.startTime > 0 /\ probe.endTime - probe.startTime = 120
    /\ probe.breakMinutes = 30 /\ probe.duration = 90

\* the rows a report is computed of
Input == Rows(entries, users, projects, DOMAIN entries)

RECURSIVE SumOver(_, _)
\* the sum of the field of the records of a set
SumOver(set, field) ==
    IF set = {} THEN 0
    ELSE LET x == CHOOSE y \in set : TRUE IN x[field] + SumOver(set \ {x}, field)

\* the net duration of every row, by its id
Durations ==
    {[id |-> r.id,
      duration |-> IF r.endTime = NULL THEN 0
                   ELSE IF r.endTime - r.startTime - r.breakMinutes > 0
                   THEN r.endTime - r.startTime - r.breakMinutes ELSE 0]
     : r \in Input}

\* C13: the output of the aggregation is a partition of its input: every
\* row is in exactly one group, no group is empty, no group holds a row
\* that was not put in, and the totalHours of the groups add up to the
\* durations of the rows that have both times.
C13_GroupsPartitionInput ==
    (probe.fn = "processedData" /\ probe.done) =>
        /\ \A r \in Input : Cardinality({g \in probe.data : r \in g.entries}) = 1
        /\ \A g \in probe.data : g.entries # {} /\ g.entries \subseteq Input
        /\ SumOver(probe.data, "totalHours") = SumOver(Durations, "duration")

\* two completed rows have been put in two groups
C13_Witness ==
    /\ probe.fn = "processedData" /\ probe.done
    /\ Cardinality(probe.data) = 2
    /\ \A g \in probe.data : g.totalHours > 0

\* net duration times hourly rate of every row of a set, by the row's id; a
\* row whose user has no rate costs nothing
Costs(rows) ==
    {[id |-> d.id,
      costs |-> LET r == CHOOSE x \in rows : x.id = d.id
                IN  IF r.hourlyRate = NULL THEN 0 ELSE d.duration * r.hourlyRate]
     : d \in {x \in Durations : \E r \in rows : r.id = x.id}}

\* C14: with costs enabled, the totalCosts of every group is the sum, over
\* the group's completed entries, of net duration times the hourly rate of
\* the entry's user, an entry whose user has no rate adding nothing.
C14_GroupCostsAreNetTimesRate ==
    (probe.fn = "processedData" /\ probe.done /\ probe.showCosts) =>
        \A g \in probe.data : g.totalCosts = SumOver(Costs(g.entries), "costs")

\* costs have been computed of a group that holds one entry of 7.5 net
\* hours of a user whose rate is 20, and an entry of a user without a rate:
\* 150 an hour, which is 9000 at 60 minutes an hour
C14_Witness ==
    /\ probe.fn = "processedData" /\ probe.done /\ probe.showCosts
    /\ \E g \in probe.data :
        /\ g.totalCosts = 150 * 60
        /\ \E r \in g.entries :
               r.hourlyRate = 20 /\ r.endTime - r.startTime - r.breakMinutes = 450
        /\ \E r \in g.entries : r.hourlyRate = NULL /\ r.endTime # NULL

\* the cost amounts a report response carries: the totalCosts of its groups
\* and the costs of the lines of its CSV
CostAmounts ==
    IF resp.status # 200 \/ resp.op \notin {"reportsData", "reportsExport"} THEN {}
    ELSE {g.totalCosts : g \in resp.body.data}
             \cup (IF resp.op = "reportsExport"
                   THEN {l.costs : l \in resp.body.csv.lines} ELSE {})

\* the request asked for costs: its query carries includeCosts=true
CostsRequested ==
    "includeCosts" \in DOMAIN resp.body.query /\ resp.body.query.includeCosts

\* C15: a cost amount other than 0 is returned by GET /api/reports/data or
\* GET /api/reports/export only to an admin who asked for includeCosts=true.
C15_CostsOnlyForAdminOnRequest ==
    (\E amount \in CostAmounts : amount # 0) =>
        (users[resp.caller].role = "admin" /\ CostsRequested)

\* what does hold: a caller who is no admin is never given a cost amount,
\* and the export gives one only on request
C15_CostsOnlyForAdminAndExportOnRequest ==
    (\E amount \in CostAmounts : amount # 0) =>
        /\ users[resp.caller].role = "admin"
        /\ resp.op = "reportsExport" => CostsRequested

\* an admin has been given costs by GET /api/reports/data
C15_Witness ==
    /\ resp.op = "reportsData" /\ resp.status = 200
    /\ \E g \in resp.body.data : g.totalCosts # 0

\* the rows the dashboard of the caller is computed of: the caller's own
OwnRows == {r \in Input : r.userId = probe.caller}

\* the net hours of the completed rows of a set: those that are not running
\* and have an endTime
CompletedNet(rows) ==
    SumOver({d \in Durations :
               \E r \in rows : r.id = d.id /\ ~r.isRunning /\ r.endTime # NULL},
            "duration")

\* the balances are the net hours of the completed entries of the window
\* less 1, 5 and 22 times the caller's target hours per day
BalancesAreHoursLessTarget ==
    LET cards == probe.cards
        target == 60 * users[probe.caller].targetHoursPerDay
    IN  /\ cards.todayBalance
             = CompletedNet({r \in OwnRows : DayOf(r.date) = DayOf(now)}) - target
        /\ cards.weekBalance = CompletedNet(cards.weekEntries) - 5 * target
        /\ cards.monthBalance = CompletedNet(cards.monthEntries) - 22 * target

\* C16: today balance = net hours of the user's completed entries dated
\* today - targetHoursPerDay, week balance = net hours in the week window
\* - 5 x targetHoursPerDay, month balance = net hours in the month window
\* - 22 x targetHoursPerDay, whatever weekday and month it is.
C16_BalancesAreHoursLessTarget ==
    (probe.fn = "BalanceCards" /\ probe.done) => BalancesAreHoursLessTarget

\* what does hold: the same for every user whose target is not 0
C16_BalancesAreHoursLessTargetUnlessZero ==
    (/\ probe.fn = "BalanceCards" /\ probe.done
     /\ users[probe.caller].targetHoursPerDay # 0) => BalancesAreHoursLessTarget

\* the dashboard of a user with target 8 who logged 8 net hours today shows
\* a today balance of 0
C16_Witness ==
    /\ probe.fn = "BalanceCards" /\ probe.done
    /\ users[probe.caller].targetHoursPerDay = 8
    /\ probe.cards.todayHours = 8 * 60
    /\ probe.cards.todayBalance = 0

\* the dashboard of a user with target 0 has been computed
C16_WitnessZero ==
    /\ probe.fn = "BalanceCards" /\ probe.done
    /\ users[probe.caller].targetHoursPerDay = 0
    /\ probe.cards.todayBalance = probe.cards.todayHours - 8 * 60

\* the day of the Monday on or before the date
MondayOf(date) == CHOOSE m \in (DayOf(date) - 6)..DayOf(date) : (m + 3) % 7 = 0

\* an entry is counted in the week exactly when its date is one of the days
\* first..last
WeekCountsDays(first, last) ==
    \A r \in OwnRows :
        r \in probe.cards.weekEntries <=> (first <= DayOf(r.date) /\ DayOf(r.date) <= last)

\* C17: an entry is counted in the this-week balance exactly when its date
\* lies in the Monday-start week of the current date, from that Monday
\* through the following Sunday; on a Sunday the window starts six days
\* earlier.
C17_WeekIsMondayThroughSunday ==
    (probe.fn = "BalanceCards" /\ probe.done) =>
        WeekCountsDays(MondayOf(now), MondayOf(now) + 6)

\* what does hold: the window runs from that Monday through the current date
C17_WeekIsMondayThroughToday ==
    (probe.fn = "BalanceCards" /\ probe.done) =>
        /\ WeekCountsDays(MondayOf(now), DayOf(now))
        /\ getStartOfWeek(now) = MondayOf(now)

\* the dashboard has been computed on a Wednesday of a user who holds an
\* entry dated the Thursday after it, which is not counted in the week
C17_Witness ==
    /\ probe.fn = "BalanceCards" /\ probe.done
    /\ \E r \in OwnRows :
        /\ DayOf(r.date) = DayOf(now) + 1
        /\ DayOf(r.date) <= MondayOf(now) + 6
        /\ r \notin probe.cards.weekEntries

\* C18: an entry with isRunning = true adds nothing to the today, week,
\* month and total worked hours, whatever its startTime and endTime; once
\* stopped it adds its net duration: every figure is the net duration of
\* the entries of its window that are not running and have an endTime.
C18_RunningEntriesAddNothing ==
    (probe.fn = "BalanceCards" /\ probe.done) =>
        LET cards == probe.cards
        IN  /\ cards.todayHours = CompletedNet(cards.todayEntries)
            /\ cards.weekHours = CompletedNet(cards.weekEntries)
            /\ cards.monthHours = CompletedNet(cards.monthEntries)
            /\ cards.allTimeHours = CompletedNet(OwnRows)

\* the dashboard has been computed of an entry of today that is marked
\* running and has an endTime, and of one whose timer has just been stopped
C18_Witness ==
    /\ probe.fn = "BalanceCards" /\ probe.done
    /\ \E r \in probe.cards.todayEntries : r.isRunning /\ r.endTime # NULL
    /\ \E r \in OwnRows :
        /\ ~r.isRunning /\ r.endTime = now /\ entries[r.id].updatedAt = now
    /\ probe.cards.allTimeHours > 0

\* the day of the Sunday on or before the date
SundayOf(date) == CHOOSE d \in (DayOf(date) - 6)..DayOf(date) : (d + 4) % 7 = 0

\* the two rows are in one group of the report
SameGroup(r1, r2) == \E g \in probe.data : r1 \in g.entries /\ r2 \in g.entries

C21_ErrorLeavesEntries == [][resp'.status >= 400 => entries' = entries]_vars

\* what does hold: a request answered with an error inserts and deletes no
\* row
C21_ErrorInsertsNoRow ==
    [][resp'.status >= 400 => DOMAIN entries' = DOMAIN entries]_vars

\* a timer start has been answered 500 while the caller's running entry was
\* stopped by it
C21_Witness ==
    /\ resp.op = "timerStart" /\ resp.status = 500
    /\ \E id \in DOMAIN entries :
         /\ entries[id].userId = resp.caller
         /\ ~entries[id].isRunning /\ entries[id].endTime # NULL
    /\ getRunningTimeEntry(entries, resp.caller) = {}

\* an admin's PUT or DELETE of a project or holiday under the id
AdminChanges(c, id) ==
    /\ isAdmin(c)
    /\ \/ \E b \in ProjectPatches : PutProject(c, id, b)
       \/ DeleteProject(c, id)
       \/ \E b \in HolidayPatches : PutHoliday(c, id, b)
       \/ DeleteHoliday(c, id)

\* the table the request is addressed to
Addressed == IF resp'.op \in {"updateProject", "deleteProject"} THEN projects ELSE holidays

\* C22: an admin's PUT or DELETE of /api/projects/:id or /api/holidays/:id
\* whose id matches no stored project or holiday is answered 404.
C22_UnknownIdIsNotFound ==
    [][\A c \in Users, id \in 1..MaxProjects \cup 1..MaxHolidays :
         AdminChanges(c, id) /\ id \notin DOMAIN Addressed => resp'.status = 404]_vars

\* what does hold: such a request changes no row
C22_UnknownIdChangesNothing ==
    [][\A c \in Users, id \in 1..MaxProjects \cup 1..MaxHolidays :
         AdminChanges(c, id) /\ id \notin DOMAIN Addressed
            => UNCHANGED <<projects, holidays>>]_vars

\* an admin's update of a project that does not exist has been answered 200
\* with no row
C22_Witness ==
    /\ resp.op = "updateProject" /\ resp.status = 200 /\ resp.body = {}
    /\ isAdmin(resp.caller)

C24_RunningIsCallersRunning ==
    resp.op = "getRunning" =>
        /\ resp.body = {} <=> RunningOf(resp.caller) = {}
        /\ Cardinality(resp.body) <= 1
        /\ \A r \in resp.body :
             /\ r.id \in DOMAIN entries /\ entries[r.id] = r.entry
             /\ r.entry.isRunning /\ r.entry.userId = resp.caller

\* the caller was returned the running entry while holding a stopped one
\* too, and while another user's timer was running
C24_Witness ==
    /\ resp.op = "getRunning" /\ resp.body # {}
    /\ \E id \in DOMAIN entries :
         entries[id].userId = resp.caller /\ ~entries[id].isRunning
    /\ \E u \in Users \ {resp.caller} : RunningOf(u) # {}

\* C25: projects are admin-controlled: a project row is inserted, changed or
\* deactivated only by a request whose caller has role admin.
C25_ProjectsChangeByAdminOnly ==
    [][projects' # projects => isAdmin(resp'.caller)]_vars

\* what does hold: every endpoint but the seed endpoint leaves the projects
\* alone when the caller is no admin
C25_ProjectsChangeByAdminOrSeed ==
    [][projects' # projects => isAdmin(resp'.caller) \/ resp'.op = "seed"]_vars

\* the sample projects were created by a caller who is no admin
C25_Witness ==
    /\ resp.op = "seed" /\ ~isAdmin(resp.caller)
    /\ Cardinality(DOMAIN projects) = Len(SeedProjects)

\* some user, active or not, has role admin
SomeAdmin == \E u \in Users : users[u].role = "admin"

\* C26: POST /api/users/:id/promote makes the target an admin only when no
\* user with role admin exists, active or inactive, and the target is the
\* caller; otherwise it answers 403 and changes no user.
C26_PromoteOnlyWithoutAdmin ==
    [][\A c \in Users, id \in Users :
         Promote(c, id) =>
            IF ~SomeAdmin /\ id = c
            THEN resp'.status = 200 /\ users' = updateUser(users, id, [role |-> "admin"])
            ELSE resp'.status = 403 /\ users' = users]_vars

\* what does hold: the same with the admins among the active users only
C26_PromoteOnlyWithoutActiveAdmin ==
    [][\A c \in Users, id \in Users :
         Promote(c, id) =>
            IF ~adminExists(users) /\ id = c
            THEN resp'.status = 200 /\ users' = updateUser(users, id, [role |-> "admin"])
            ELSE resp'.status = 403 /\ users' = users]_vars

\* a user has promoted themself while an inactive admin was stored
C26_Witness ==
    /\ resp.op = "promote" /\ resp.status = 200
    /\ \E u \in Users \ {resp.caller} : users[u].role = "admin" /\ ~users[u].isActive
    /\ users[resp.caller].role = "admin"

NoOverlapStored(SameDate(_, _)) ==
    \A i, j \in DOMAIN entries :
        (i # j /\ entries[i].userId = entries[j].userId
               /\ SameDate(entries[i].date, entries[j].date))
            => ~(entries[i].startTime < entries[j].endTime
                 /\ entries[j].startTime < entries[i].endTime)

\* C28: from the empty store, after any sequence of POST /api/time-entries
\* requests with startTime < endTime, no two stored entries of one user with
\* the same date (calendar day) have overlapping ranges.
C28_NoOverlapStored == NoOverlapStored(SameDay)

\* what does hold: no two entries of one user whose dates are the same
\* instant overlap
C28_NoOverlapStoredAtSameInstant == NoOverlapStored(SameInstant)

\* a user holds two entries of one instant side by side, and a third
\* request was refused as overlapping
C28_Witness ==
    /\ resp.op = "createEntry" /\ resp.status = 400 /\ resp.message = "overlap"
    /\ \E i, j \in DOMAIN entries :
         /\ i # j /\ entries[i].userId = resp.caller /\ entries[j].userId = resp.caller
         /\ entries[i].date = entries[j].date
         /\ entries[i].endTime = entries[j].startTime

\* the stored entries the step has changed
Changed == {id \in DOMAIN entries : entries'[id] # entries[id]}

\* C29: POST /api/timer/start and POST /api/timer/stop of a user leave
\* every entry of every other user as it was, and change at most one of the
\* entries the user had before.
C29_TimerTouchesOwnOnly ==
    [][resp'.op \in {"timerStart", "timerStop"} =>
         /\ DOMAIN entries \subseteq DOMAIN entries'
         /\ \A id \in Changed : entries[id].userId = resp'.caller
         /\ Cardinality(Changed) <= 1]_vars

\* a user has started a timer over a running one, which is stopped now,
\* while another user's timer keeps running with no endTime
C29_Witness ==
    /\ resp.op = "timerStart" /\ resp.status = 201
    /\ \E id \in DOMAIN entries :
         /\ entries[id].userId = resp.caller
         /\ ~entries[id].isRunning /\ entries[id].endTime # NULL
    /\ \E u \in Users \ {resp.caller}, id \in DOMAIN entries :
         entries[id].userId = u /\ entries[id].isRunning /\ entries[id].endTime = NULL

\* the stored entries of a user, as the queries return them
EntriesOf(u) == Rows(entries, users, projects, {id \in DOMAIN entries : entries[id].userId = u})

\* the client's worked hours and the server's totalHours of the rows agree
TotalsAgree(rows) ==
    calculateWorkingHours(rows) = calculateHoursAndCosts(rows, FALSE).totalHours

\* C30: over the entries of one user, in every state the API reaches, the
\* worked hours the client balance engine computes equal the totalHours the
\* server report aggregator computes.
C30_ClientAndServerAgree == \A u \in Users : TotalsAgree(EntriesOf(u))

\* what does hold: the two agree for a user none of whose entries is marked
\* running while it has an endTime
C30_AgreeUnlessRunningWithEnd ==
    \A u \in Users :
        (\A r \in EntriesOf(u) : r.isRunning => r.endTime = NULL)
            => TotalsAgree(EntriesOf(u))

\* a user holds a completed entry of positive duration and a running entry
\* without endTime, and the two totals are that duration
C30_Witness ==
    \E u \in Users :
        /\ \E r \in EntriesOf(u) : ~r.isRunning /\ r.endTime # NULL /\ actualHours(r) > 0
        /\ \E r \in EntriesOf(u) : r.isRunning /\ r.endTime = NULL
        /\ TotalsAgree(EntriesOf(u))
        /\ calculateWorkingHours(EntriesOf(u)) > 0

====
